---- MODULE Spec2Model ----
(***************************************************************************)
(* Model of merlion/utils/conj_priors.py: the Bayesian conjugate priors    *)
(* BetaBernoulli, NormInvGamma, MVNormInvWishart, BayesianLinReg and       *)
(* BayesianMVLinReg, their shared preprocessing (process_time_series),     *)
(* update / posterior, to_dict / from_dict and __copy__.                   *)
(*                                                                         *)
(* Numbers are exact rationals [p, q] (floating-point rounding is not      *)
(* modelled); NaN is the one non-rational value numpy produces here.       *)
(***************************************************************************)
EXTENDS Integers, Sequences, FiniteSets, TLC

\* ------------------------------------------------------------------ bounds
\* Longest batch (rows of one update / posterior input).
MaxLen == 2
\* Most observation rows the models may hold in total (update is not offered
\* beyond it).
MaxN == 3

\* ----------------------------------------------------------------- numbers
RECURSIVE GCD(_, _)
GCD(a, b) ==
    IF b = 0 THEN a ELSE GCD(b, a % b)

Abs(i) ==
    IF i < 0 THEN -i ELSE i

NaN ==
    [p |-> 0, q |-> 0]

IsNaN(r) ==
    r.q = 0

\* The rational a/b in lowest terms (b # 0).
Rat(a, b) ==
    LET g == GCD(Abs(a), Abs(b))
        s == IF b < 0 THEN -1 ELSE 1
    IN  [p |-> s * (a \div g), q |-> s * (b \div g)]

I2R(i) ==
    [p |-> i, q |-> 1]

Zero ==
    I2R(0)

One ==
    I2R(1)

RAdd(x, y) ==
    IF IsNaN(x) \/ IsNaN(y) THEN NaN
    ELSE IF x.q = 1 /\ y.q = 1 THEN [p |-> x.p + y.p, q |-> 1]
    ELSE Rat(x.p * y.q + y.p * x.q, x.q * y.q)

RNeg(x) ==
    IF IsNaN(x) THEN NaN ELSE [p |-> -x.p, q |-> x.q]

RSub(x, y) ==
    RAdd(x, RNeg(y))

RMul(x, y) ==
    IF IsNaN(x) \/ IsNaN(y) THEN NaN
    ELSE IF x.q = 1 /\ y.q = 1 THEN [p |-> x.p * y.p, q |-> 1]
    ELSE Rat(x.p * y.p, x.q * y.q)

\* numpy true division: 0/0 is nan (x/0 with x # 0 does not occur in this code).
RDiv(x, y) ==
    IF IsNaN(x) \/ IsNaN(y) \/ y.p = 0 THEN NaN ELSE Rat(x.p * y.q, x.q * y.p)

RPos(x) ==
    ~IsNaN(x) /\ x.p > 0

RECURSIVE RSum(_)
RSum(s) ==
    IF s = <<>> THEN Zero ELSE RAdd(Head(s), RSum(Tail(s)))

\* ------------------------------------------------------------------ arrays
\* The sequence with the elements of f, each computed once.
Force(f) ==
    f \o <<>>

\* The value of a function on its one-point domain: [v \in {e} |-> body] is body
\* with the intermediate result e named v.
With(f) ==
    f[CHOOSE v \in DOMAIN f : TRUE]


\* A vector is a sequence of numbers, a matrix a sequence of rows.
NRows(A) ==
    Len(A)

NCols(A) ==
    Len(A[1])

Col(A, j) ==
    Force([i \in 1..Len(A) |-> A[i][j]])

Dot(u, v) ==
    RSum(Force([i \in 1..Len(u) |-> RMul(u[i], v[i])]))

Transpose(A) ==
    Force([j \in 1..NCols(A) |-> Col(A, j)])

MatMul(A, B) ==
    Force([i \in 1..NRows(A) |-> Force([j \in 1..NCols(B) |-> Dot(A[i], Col(B, j))])])

MatAdd(A, B) ==
    Force([i \in 1..NRows(A) |-> Force([j \in 1..NCols(A) |-> RAdd(A[i][j], B[i][j])])])

MatSub(A, B) ==
    Force([i \in 1..NRows(A) |-> Force([j \in 1..NCols(A) |-> RSub(A[i][j], B[i][j])])])

MatScale(A, c) ==
    Force([i \in 1..NRows(A) |-> Force([j \in 1..NCols(A) |-> RMul(A[i][j], c)])])

MatConst(r, c, v) ==
    Force([i \in 1..r |-> Force([j \in 1..c |-> v])])

VecAdd(u, v) ==
    Force([i \in 1..Len(u) |-> RAdd(u[i], v[i])])

VecSub(u, v) ==
    Force([i \in 1..Len(u) |-> RSub(u[i], v[i])])

VecScale(u, c) ==
    Force([i \in 1..Len(u) |-> RMul(u[i], c)])

\* ---------------------------------------------------------- optional values
\* A field that is unset holds Python's None.  np.asarray(None) is a 0-d
\* object array: it is not None (`v is None` is false) and arithmetic on it
\* raises TypeError.
None ==
    [k |-> "None"]

ArrNone ==
    [k |-> "ndarray(None)"]

Val(v) ==
    [k |-> "val", v |-> v]

IsNone(f) ==
    f.k = "None"

\* A numpy array of rank nd (0: a 0-d scalar, 2: a matrix).
Arr0(r) ==
    [nd |-> 0, a |-> r]

Arr2(A) ==
    [nd |-> 2, a |-> A]

\* numpy broadcasting of + over 0-d scalars and (d, d) matrices.
BAdd(X, Y) ==
    IF X.nd = 0 /\ Y.nd = 0 THEN Arr0(RAdd(X.a, Y.a))
    ELSE IF X.nd = 0 THEN Arr2(Force([i \in 1..NRows(Y.a) |-> Force([j \in 1..NCols(Y.a) |-> RAdd(Y.a[i][j], X.a)])]))
    ELSE IF Y.nd = 0 THEN Arr2(Force([i \in 1..NRows(X.a) |-> Force([j \in 1..NCols(X.a) |-> RAdd(X.a[i][j], Y.a)])]))
    ELSE Arr2(MatAdd(X.a, Y.a))

BScale(X, c) ==
    IF X.nd = 0 THEN Arr0(RMul(X.a, c)) ELSE Arr2(MatScale(X.a, c))

\* ------------------------------------------------------------------ inputs
Values ==
    {0, 1}

Dims ==
    {1, 2}

\* Observation rows offered to the models, by column count.
RowsOf(d) ==
    IF d = 1 THEN {<<v>> : v \in Values} ELSE {<<0, 1>>, <<1, 0>>}

Batches(d) ==
    UNION {[1..k -> RowsOf(d)] : k \in 1..MaxLen}

\* First timestamps and spacings of the TimeSeries inputs (univariate, every
\* value 1: what a TimeSeries adds to a bare array is its time stamps).
TsStarts ==
    {1}

TsSteps ==
    {2}

NoneX ==
    [kind |-> "None", rows |-> <<>>, ts |-> <<>>]

Scalar(v) ==
    [kind |-> "scalar", rows |-> <<<<v>>>>, ts |-> <<>>]

Array(b) ==
    [kind |-> "array", rows |-> b, ts |-> <<>>]

TS(b, s, step) ==
    [kind |-> "ts", rows |-> b, ts |-> Force([i \in 1..Len(b) |-> s + (i - 1) * step])]

DataInputs ==
    {Scalar(v) : v \in Values}
    \cup {Array(b) : b \in UNION {Batches(d) : d \in Dims}}
    \cup {TS(Force([i \in 1..k |-> <<1>>]), s, step) : k \in 1..MaxLen, s \in TsStarts, step \in TsSteps}

ToRat(b) ==
    Force([i \in 1..Len(b) |-> Force([j \in 1..Len(b[i]) |-> I2R(b[i][j])])])

\* ----------------------------------------------------------------- classes
Scalars ==
    {"BetaBernoulli", "NormInvGamma"}

Regressions ==
    {"BayesianLinReg", "BayesianMVLinReg"}

Classes ==
    Scalars \cup {"MVNormInvWishart"} \cup Regressions

\* ConjPrior.__init__ (and ScalarConjPrior.__init__, which fixes dim = 1).
ConjPrior_init(cls) ==
    [cls |-> cls, n |-> 0, dim |-> IF cls \in Scalars THEN Val(1) ELSE None,
     t0 |-> None, dt |-> None]

Zeros22 ==
    MatConst(2, 2, Zero)

\* The constructors, called without a sample.
New(cls) ==
    LET b == ConjPrior_init(cls)
    IN  CASE cls = "BetaBernoulli" ->
               b @@ [alpha |-> One, beta |-> One]
          [] cls = "NormInvGamma" ->
               b @@ [mu_0 |-> Zero, alpha |-> Zero, beta |-> Zero]
          [] cls = "MVNormInvWishart" ->
               b @@ [nu |-> 0, mu_0 |-> None, Lambda |-> None]
          [] cls = "BayesianLinReg" ->
               b @@ [w_0 |-> <<Zero, Zero>>, Lambda_0 |-> Zeros22, alpha |-> Zero,
                     beta |-> Arr0(Zero)]
          [] cls = "BayesianMVLinReg" ->
               b @@ [nu |-> 0, w_0 |-> None, Lambda_0 |-> Zeros22, V_0 |-> None]

\* --------------------------------------------------- process_time_series
\* The result of a call: the object as the call left it, the outcome, and
\* (when it returned) t, the observation matrix x and the first raw index.
Raise(self, e) ==
    [self |-> self, err |-> e, t |-> <<>>, x |-> <<>>, start |-> 0]

\* A faulty variant of Anchor that anchors on every call: C7 must fail with it.
Anchor_every_call(self, x) ==
    IF x.kind = "ts"
    THEN LET t0 == x.ts[1]
             tf == x.ts[Len(x.ts)]
         IN  [self EXCEPT !.t0 = Val(t0), !.dt = Val(IF tf # t0 THEN tf - t0 ELSE 1)]
    ELSE [self EXCEPT !.t0 = Val(0),
                      !.dt = Val(IF x.kind = "scalar" THEN 1 ELSE Len(x.rows))]

\* t0 / dt as the call leaves them (lines 78-87).
Anchor(self, x) ==
    IF IsNone(self.t0) \/ IsNone(self.dt)
    THEN IF x.kind = "ts"
         THEN LET t0 == x.ts[1]
                  tf == x.ts[Len(x.ts)]
              IN  [self EXCEPT !.t0 = Val(t0), !.dt = Val(IF tf # t0 THEN tf - t0 ELSE 1)]
         ELSE [self EXCEPT !.t0 = Val(0),
                           !.dt = Val(IF x.kind = "scalar" THEN 1 ELSE Len(x.rows))]
    ELSE self

\* A faulty variant of RawTimes that numbers every bare numeric batch from 0,
\* arange(len(x)): C9 must fail with it.
RawTimes_from_zero(self, x) ==
    IF x.kind = "ts" THEN x.ts ELSE Force([i \in 1..Len(x.rows) |-> i - 1])

\* The raw time stamps of the input: its own for a TimeSeries, and
\* arange(n, n + len(x)) for bare numeric data (lines 91, 96).
RawTimes(self, x) ==
    IF x.kind = "ts" THEN x.ts ELSE Force([i \in 1..Len(x.rows) |-> self.n + i - 1])

\* A faulty variant of CheckDim that never records the dimension: C6 must
\* fail with it.
CheckDim_not_recorded(self, x) ==
    IF IsNone(self.dim) THEN [self |-> self, ok |-> TRUE]
    ELSE [self |-> self, ok |-> self.dim = Val(Len(x.rows[1]))]

\* The dimension check (lines 98-101).
CheckDim(self, x) ==
    IF IsNone(self.dim) THEN [self |-> [self EXCEPT !.dim = Val(Len(x.rows[1]))], ok |-> TRUE]
    ELSE [self |-> self, ok |-> self.dim = Val(Len(x.rows[1]))]

process_time_series(self, x) ==
    IF x.kind = "None" THEN [self |-> self, err |-> "none", t |-> <<>>, x |-> <<>>, start |-> 0]
    ELSE With([s1 \in {Anchor(self, x)} |->
         IF s1.t0.k # "val" \/ s1.dt.k # "val" THEN Raise(s1, "TypeError")
         ELSE With([raw \in {RawTimes(s1, x)} |->
              With([c \in {CheckDim(s1, x)} |->
                  IF ~c.ok THEN Raise(c.self, "AssertionError")
                  ELSE [self |-> c.self, err |-> "ok",
                        t |-> Force([i \in 1..Len(raw) |-> Rat(raw[i] - s1.t0.v, s1.dt.v)]),
                        x |-> ToRat(x.rows),
                        start |-> raw[1]]])])])

\* ScalarConjPrior.process_time_series additionally flattens x.
Flatten(A) ==
    Col(A, 1)

\* ------------------------------------------------------------ numpy / scipy
Mean(v) ==
    RDiv(RSum(v), I2R(Len(v)))

\* np.mean(x, axis=0)
MeanAxis0(A) ==
    Force([j \in 1..NCols(A) |-> Mean(Col(A, j))])

SumSqDev(v) ==
    LET m == Mean(v)
    IN  RSum(Force([i \in 1..Len(v) |-> RMul(RSub(v[i], m), RSub(v[i], m))]))

\* np.cov(x, rowvar=False) of an (N, d) matrix, ddof = 1, squeezed.  NumPy 1.x
\* does not transpose a single-row matrix and returns the variance of the
\* row's entries; NumPy 2.x transposes it.  Zero degrees of freedom give nan.
np_cov(A, numpy1) ==
    LET N == NRows(A)
        d == NCols(A)
    IN  IF numpy1 /\ N = 1
        THEN Arr0(IF d = 1 THEN NaN ELSE RDiv(SumSqDev(A[1]), I2R(d - 1)))
        ELSE With([avg \in {MeanAxis0(A)} |->
             With([C \in {Force([i \in 1..d |-> Force([j \in 1..d |->
                         IF N = 1 THEN NaN
                         ELSE RDiv(RSum(Force([r \in 1..N |->
                                  RMul(RSub(A[r][i], avg[i]), RSub(A[r][j], avg[j]))])),
                                   I2R(N - 1))])])} |->
                 IF d = 1 THEN Arr0(C[1][1]) ELSE Arr2(C)])])

\* scipy.linalg.pinvh of a symmetric 2 x 2 matrix: the inverse when it is
\* regular, A / tr(A)^2 when it has rank 1, and 0 when it is 0.
pinvh(A) ==
    With([det \in {RSub(RMul(A[1][1], A[2][2]), RMul(A[1][2], A[2][1]))} |->
    With([tr \in {RAdd(A[1][1], A[2][2])} |->
        IF IsNaN(det) THEN MatConst(2, 2, NaN)
        ELSE IF det.p # 0
             THEN <<<<RDiv(A[2][2], det), RDiv(RNeg(A[1][2]), det)>>,
                    <<RDiv(RNeg(A[2][1]), det), RDiv(A[1][1], det)>>>>
        ELSE IF tr.p = 0 THEN Zeros22
        ELSE MatScale(A, RDiv(One, RMul(tr, tr)))])])

\* scipy.linalg.pinv of an (n, 2) matrix: (T^T T)^+ T^T.
pinv(T) ==
    MatMul(pinvh(MatMul(Transpose(T), T)), Transpose(T))

\* np.stack((t, np.ones_like(t)), axis=-1)
TFull(t) ==
    Force([i \in 1..Len(t) |-> <<t[i], One>>])

\* ----------------------------------------------------------------- update
Done(self) ==
    [self |-> self, err |-> "ok"]

Fail(self, e) ==
    [self |-> self, err |-> e]

\* A faulty variant of BetaBernoulli.update, beta += 1 - x.sum(): C5 must fail
\* with it.
BetaBernoulli_update_one_minus_sum(self, xin) ==
    With([r \in {process_time_series(self, xin)} |->
        IF r.err # "ok" THEN Fail(r.self, r.err)
        ELSE With([x \in {Flatten(r.x)} |->
             Done([r.self EXCEPT
                    !.n = @ + Len(x),
                    !.alpha = RAdd(@, RSum(x)),
                    !.beta = RAdd(@, RSub(One, RSum(x)))])])])

\* BetaBernoulli.update
BetaBernoulli_update(self, xin) ==
    With([r \in {process_time_series(self, xin)} |->
        IF r.err # "ok" THEN Fail(r.self, r.err)
        ELSE With([x \in {Flatten(r.x)} |->
             Done([r.self EXCEPT
                    !.n = @ + Len(x),
                    !.alpha = RAdd(@, RSum(x)),
                    !.beta = RAdd(@, RSum(Force([i \in 1..Len(x) |-> RSub(One, x[i])])))])])])

\* NormInvGamma.update
NormInvGamma_update(self, xin) ==
    With([r \in {process_time_series(self, xin)} |->
        IF r.err # "ok" THEN Fail(r.self, r.err)
        ELSE With([x \in {Flatten(r.x)} |->
             With([xbar \in {Mean(x)} |->
             With([dmu \in {RSub(r.self.mu_0, xbar)} |->
                 LET s == r.self
                     n0 == s.n
                     n == Len(x)
                     sample_comp == SumSqDev(x)
                     prior_comp == RMul(Rat(n0 * n, n0 + n), RMul(dmu, dmu))
                 IN  Done([s EXCEPT
                            !.alpha = RAdd(@, Rat(n, 2)),
                            !.n = n0 + n,
                            !.beta = RAdd(RAdd(@, RDiv(sample_comp, I2R(2))),
                                          RDiv(prior_comp, I2R(2))),
                            !.mu_0 = RAdd(RMul(@, Rat(n0, n0 + n)),
                                          RMul(xbar, Rat(n, n0 + n)))])])])])])

\* MVNormInvWishart.update
MVNormInvWishart_update(self, xin, numpy1) ==
    With([r \in {process_time_series(self, xin)} |->
        IF r.err # "ok" THEN Fail(r.self, r.err)
        ELSE With([sample_mean \in {MeanAxis0(r.x)} |->
             With([sample_cov \in {np_cov(r.x, numpy1)} |->
                 LET x == r.x
                     s == r.self
                     n0 == s.n
                     n == NRows(x)
                     s1 == [s EXCEPT !.nu = @ + n]
                 IN  IF s.n = 0
                     THEN Done([s1 EXCEPT !.mu_0 = Val(sample_mean),
                                          !.Lambda = Val(BScale(sample_cov, I2R(n))),
                                          !.n = n])
                     ELSE With([delta \in {VecSub(sample_mean, s.mu_0.v)} |->
                          LET sample_comp == BScale(sample_cov, I2R(n))
                              prior_comp == Arr0(RMul(Dot(delta, delta), Rat(n * n0, n + n0)))
                          IN  Done([s1 EXCEPT
                                     !.Lambda = Val(BAdd(BAdd(s.Lambda.v, sample_comp), prior_comp)),
                                     !.mu_0 = Val(VecAdd(VecScale(s.mu_0.v, Rat(n0, n0 + n)),
                                                         VecScale(sample_mean, Rat(n, n0 + n)))),
                                     !.n = n0 + n])])])])])

\* numpy broadcasting of a (2, 1) or (1, 1) matrix against r x c.
Broadcast(A, r, c) ==
    Force([i \in 1..r |-> Force([j \in 1..c |->
        A[IF NRows(A) = 1 THEN 1 ELSE i][IF NCols(A) = 1 THEN 1 ELSE j]])])

\* ndarray.flatten of a matrix, row-major.
FlattenAll(A) ==
    Force([k \in 1..(NRows(A) * NCols(A)) |->
        A[((k - 1) \div NCols(A)) + 1][((k - 1) % NCols(A)) + 1]])

\* BayesianLinReg.update
BayesianLinReg_update(self, xin) ==
    With([r \in {process_time_series(self, xin)} |->
        IF r.err # "ok" THEN Fail(r.self, r.err)
        ELSE IF Len(r.self.w_0) # 2 THEN Fail(r.self, "ValueError")
        ELSE With([t_full \in {TFull(r.t)} |->
             With([w0 \in {<<<<r.self.w_0[1]>>, <<r.self.w_0[2]>>>>} |->
             With([design \in {MatMul(Transpose(t_full), t_full)} |->
             With([Lambda_n \in {MatAdd(r.self.Lambda_0, design)} |->
             With([w_n \in {MatMul(pinvh(MatAdd(r.self.Lambda_0, design)),
                         MatAdd(Broadcast(MatMul(r.self.Lambda_0, w0), 2, NCols(r.x)),
                                MatMul(design, MatMul(pinv(t_full), r.x))))} |->
                 LET x == r.x
                     s == r.self
                     d == NCols(x)
                     pred0 == MatMul(MatMul(Transpose(w0), s.Lambda_0), w0)
                     pred == MatMul(MatMul(Transpose(w_n), Lambda_n), w_n)
                     incr == MatScale(MatSub(MatAdd(MatMul(Transpose(x), x),
                                                    Broadcast(pred0, d, d)),
                                             pred), Rat(1, 2))
                 IN  Done([s EXCEPT
                            !.w_0 = FlattenAll(w_n),
                            !.Lambda_0 = Lambda_n,
                            !.n = @ + NRows(x),
                            !.alpha = RAdd(@, Rat(NRows(x), 2)),
                            !.beta = BAdd(@, Arr2(incr))])])])])])])])

\* BayesianMVLinReg.update
BayesianMVLinReg_update(self, xin) ==
    With([r \in {process_time_series(self, xin)} |->
        IF r.err # "ok" THEN Fail(r.self, r.err)
        ELSE With([s1 \in {[r.self EXCEPT
                    !.V_0 = IF IsNone(@) THEN Val(MatConst(NCols(r.x), NCols(r.x), Zero)) ELSE @,
                    !.w_0 = IF IsNone(@) THEN Val(MatConst(2, NCols(r.x), Zero)) ELSE @]} |->
             IF s1.w_0.k # "val" \/ s1.V_0.k # "val" THEN Fail(s1, "ValueError")
             ELSE With([t_full \in {TFull(r.t)} |->
                  With([new_Lambda \in {MatAdd(MatMul(Transpose(t_full), t_full), s1.Lambda_0)} |->
                  With([new_w \in {MatMul(pinvh(new_Lambda),
                              MatAdd(MatMul(Transpose(t_full), r.x),
                                     MatMul(s1.Lambda_0, s1.w_0.v)))} |->
                  With([residual \in {MatSub(r.x, MatMul(t_full, new_w))} |->
                  With([delta_w \in {MatSub(new_w, s1.w_0.v)} |->
                      Done([s1 EXCEPT
                             !.n = @ + NRows(r.x),
                             !.nu = @ + NRows(r.x),
                             !.V_0 = Val(MatAdd(MatAdd(@.v, MatMul(Transpose(residual), residual)),
                                                MatMul(MatMul(Transpose(delta_w), s1.Lambda_0),
                                                       delta_w))),
                             !.w_0 = Val(new_w),
                             !.Lambda_0 = new_Lambda])])])])])])])])

\* update(x), dispatched on the class of self.
update(self, xin, numpy1) ==
    CASE self.cls = "BetaBernoulli" -> BetaBernoulli_update(self, xin)
      [] self.cls = "NormInvGamma" -> NormInvGamma_update(self, xin)
      [] self.cls = "MVNormInvWishart" -> MVNormInvWishart_update(self, xin, numpy1)
      [] self.cls = "BayesianLinReg" -> BayesianLinReg_update(self, xin)
      [] self.cls = "BayesianMVLinReg" -> BayesianMVLinReg_update(self, xin)

\* --------------------------------------------------------------- posterior
\* What a posterior call returns: the scipy.stats random variable ("rv"),
\* log-density values ("logpdf"), density values ("pdf"), or the exception it
\* raises.  The density values themselves are not modelled.
process_return(xnone, return_rv, log) ==
    IF xnone \/ return_rv THEN "rv"
    ELSE IF log THEN "logpdf" ELSE "pdf"

Ret(self, res) ==
    [self |-> self, res |-> res]

\* BetaBernoulli.posterior(self, x, return_rv=False, log=True)
BetaBernoulli_posterior(self, xin, return_rv, log) ==
    With([r \in {process_time_series(self, xin)} |->
        IF r.err \notin {"ok", "none"} THEN {Ret(r.self, r.err)}
        ELSE {Ret(r.self, process_return(r.err = "none", return_rv, log))}])

\* NormInvGamma.posterior(self, x, log=True, return_rv=False).  On a
\* constructed model with n = 0 the scale is the Python int division 0 / 0.
NormInvGamma_posterior(self, xin, log, return_rv) ==
    With([r \in {process_time_series(self, xin)} |->
        IF r.err \notin {"ok", "none"} THEN {Ret(r.self, r.err)}
        ELSE IF r.self.n = 0 THEN {Ret(r.self, "ZeroDivisionError")}
        ELSE {Ret(r.self, process_return(r.err = "none", return_rv, log))}])

\* Whether scipy's multivariate_t certainly accepts the shape matrix: it is
\* positive definite (of the model's dimension).
PosDef(L, d) ==
    IF L.nd = 0 THEN d = 1 /\ RPos(L.a)
    ELSE /\ NRows(L.a) = d
         /\ RPos(L.a[1][1])
         /\ RPos(RSub(RMul(L.a[1][1], L.a[2][2]), RMul(L.a[1][2], L.a[2][1])))

\* MVNormInvWishart.posterior(self, x, return_rv=False, log=True).  Whether
\* scipy rejects a shape matrix that is nan or singular depends on its
\* version: both outcomes are possible then.
MVNormInvWishart_posterior(self, xin, return_rv, log) ==
    With([r \in {process_time_series(self, xin)} |->
        LET s == r.self
        IN  IF r.err \notin {"ok", "none"} THEN {Ret(s, r.err)}
            ELSE IF s.dim.k # "val" \/ s.Lambda.k # "val" THEN {Ret(s, "TypeError")}
            ELSE {Ret(s, process_return(r.err = "none", return_rv, log))}
                 \cup (IF PosDef(BScale(s.Lambda.v, Rat(s.n + 1, s.n)), s.dim.v) THEN {}
                       ELSE {Ret(s, "LibError")})])

\* A faulty variant of BayesianLinReg.posterior that preprocesses x before it
\* rejects the call: C8 must fail with it.
BayesianLinReg_posterior_late_check(self, xin, return_rv, log) ==
    With([r \in {process_time_series(self, xin)} |->
        IF xin.kind = "None" \/ return_rv THEN {Ret(r.self, "ValueError")}
        ELSE IF r.err # "ok" THEN {Ret(r.self, r.err)}
        ELSE {Ret(r.self, process_return(FALSE, FALSE, log))}])

\* A faulty variant of BayesianLinReg.posterior that applies the extra update
\* to self instead of a deep copy: C12 must fail with it.
BayesianLinReg_posterior_updates_self(self, xin, return_rv, log) ==
    IF xin.kind = "None" \/ return_rv THEN {Ret(self, "ValueError")}
    ELSE With([r \in {process_time_series(self, xin)} |->
         IF r.err # "ok" THEN {Ret(r.self, r.err)}
         ELSE With([updated \in {BayesianLinReg_update(r.self, xin)} |->
              IF updated.err # "ok" THEN {Ret(updated.self, updated.err)}
              ELSE IF NCols(r.x) * NCols(r.x) # NRows(r.x)
                   THEN {Ret(updated.self, "ValueError")}
              ELSE {Ret(updated.self, process_return(FALSE, FALSE, log))}])])

\* BayesianLinReg.posterior(self, x, return_rv=False, log=True).  The sum
\* a + b + c + d has the shape of updated.beta, (d, d), and is reshaped to
\* len(x).
BayesianLinReg_posterior(self, xin, return_rv, log) ==
    IF xin.kind = "None" \/ return_rv THEN {Ret(self, "ValueError")}
    ELSE With([r \in {process_time_series(self, xin)} |->
         IF r.err # "ok" THEN {Ret(r.self, r.err)}
         ELSE With([updated \in {BayesianLinReg_update(r.self, xin)} |->
              IF updated.err # "ok" THEN {Ret(r.self, updated.err)}
              ELSE IF NCols(r.x) * NCols(r.x) # NRows(r.x) THEN {Ret(r.self, "ValueError")}
              ELSE {Ret(r.self, process_return(FALSE, FALSE, log))}])])

\* BayesianLinReg.naive_posterior(self, x, log=True).  With x = None the time
\* stamps are None and stacking them with ones fails.  Otherwise the extra
\* update runs on a deep copy; whether scipy's invgamma / multivariate_normal
\* accept the current alpha, beta and Lambda_0 depends on their values and on
\* scipy: both outcomes are possible.
BayesianLinReg_naive_posterior(self, xin, log) ==
    With([r \in {process_time_series(self, xin)} |->
        IF r.err = "none" THEN {Ret(r.self, "TypeError")}
        ELSE IF r.err # "ok" THEN {Ret(r.self, r.err)}
        ELSE With([updated \in {BayesianLinReg_update(r.self, xin)} |->
             IF updated.err # "ok" THEN {Ret(r.self, updated.err)}
             ELSE {Ret(r.self, process_return(FALSE, FALSE, log)), Ret(r.self, "LibError")}])])

\* BayesianMVLinReg.posterior(self, x, return_rv=False, log=True).  Whether
\* scipy's invwishart / multivariate_normal accept the current nu, V_0 and
\* Lambda_0 depends on their values and on scipy: both outcomes are possible.
BayesianMVLinReg_posterior(self, xin, return_rv, log) ==
    IF xin.kind = "None" \/ return_rv THEN {Ret(self, "ValueError")}
    ELSE With([r \in {process_time_series(self, xin)} |->
         IF r.err # "ok" THEN {Ret(r.self, r.err)}
         ELSE IF r.self.V_0.k # "val" \/ r.self.w_0.k # "val" THEN {Ret(r.self, "LibError")}
         ELSE {Ret(r.self, process_return(FALSE, FALSE, log)), Ret(r.self, "LibError")}])

\* posterior(x, a2, a3) with the second and third argument passed by
\* position: each class binds them by its own signature.
posterior(self, xin, a2, a3) ==
    CASE self.cls = "BetaBernoulli" -> BetaBernoulli_posterior(self, xin, a2, a3)
      [] self.cls = "NormInvGamma" -> NormInvGamma_posterior(self, xin, a2, a3)
      [] self.cls = "MVNormInvWishart" -> MVNormInvWishart_posterior(self, xin, a2, a3)
      [] self.cls = "BayesianLinReg" -> BayesianLinReg_posterior(self, xin, a2, a3)
      [] self.cls = "BayesianMVLinReg" -> BayesianMVLinReg_posterior(self, xin, a2, a3)

\* ------------------------------------------------- to_dict / from_dict / copy
\* The fields of __dict__ (cls is the object's class, not a field).
FieldsOf(self) ==
    DOMAIN self \ {"cls"}

\* The fields that may hold None.
OptFields ==
    {"dim", "t0", "dt", "Lambda", "V_0"}

IsOpt(self, f) ==
    \/ f \in OptFields
    \/ f \in {"mu_0", "w_0"} /\ self.cls \in {"MVNormInvWishart", "BayesianMVLinReg"}

\* ConjPrior.to_dict: tolist() of an array (of ndarray(None): None), a deep
\* copy of anything else.
to_dict(self) ==
    [f \in FieldsOf(self) |->
        IF IsOpt(self, f) /\ self[f] = ArrNone THEN None ELSE self[f]]

\* ConjPrior.from_dict: cls(), then np.asarray of every value.  A number or
\* nested list becomes the array of the same numbers; None becomes the 0-d
\* object array ndarray(None).
from_dict(cls, state_dict) ==
    LET ret == New(cls)
    IN  [f \in DOMAIN ret |->
            IF f \in DOMAIN state_dict
            THEN IF IsOpt(ret, f) /\ state_dict[f] = None THEN ArrNone ELSE state_dict[f]
            ELSE ret[f]]

\* A faulty variant of __copy__ that returns self: C4 must fail with it.
ConjPrior_copy_returns_self(heap, o, fresh) ==
    [heap |-> heap, ref |-> o]

\* ConjPrior.__copy__ / __deepcopy__: a new object of the class with a deep
\* copy of every field.  The result is the heap with the new object in it and
\* the reference to it.
ConjPrior_copy(heap, o, fresh) ==
    LET ret == New(heap[o].cls)
    IN  [heap |-> [heap EXCEPT ![fresh] = [f \in DOMAIN ret |->
                                              IF f \in DOMAIN heap[o] THEN heap[o][f] ELSE ret[f]]],
         ref |-> fresh]

\* ------------------------------------------------------------ the program
\* A caller holds a constructed model m and at most one copy c of it, calls
\* update and posterior on them, and may restore a model from m's to_dict.
VARIABLES
    objs,      \* the heap: object id -> the object's fields (Null: not allocated)
    c,         \* the object the caller's variable c refers to (NoRef: none yet)
    numpy1,    \* whether the installed NumPy is 1.x (see np_cov)
    absorbed,  \* per object, the observation rows its own successful updates absorbed
    last       \* the last call: what was called on which model, and its outcome

vars ==
    <<objs, c, numpy1, absorbed, last>>

M ==
    "obj1"

C ==
    "obj2"

NoRef ==
    "unbound"

Ids ==
    {M, C}

Null ==
    [cls |-> "Null"]

\* The object a handle refers to.
Deref(h) ==
    IF h = "m" THEN M ELSE c

\* What posterior(x, return_rv, log) is documented to return when it returns
\* (ConjPrior.posterior, lines 115-122).
Documented(x, return_rv, logflag) ==
    process_return(x.kind = "None", return_rv, logflag)

\* last: op is the call, h the model it was made on, res its outcome, ret the
\* model it returned (from_dict); xkind is the kind of the input, rows and
\* start the rows a successful update took and their first raw time index; doc
\* is what posterior is documented to return for its arguments and rvreq
\* whether x was None or the second argument true.
NoCall ==
    [op |-> "init", h |-> "m", res |-> "ok", ret |-> Null, xkind |-> "", rows |-> 0,
     doc |-> "", rvreq |-> FALSE, start |-> 0]

Init ==
    /\ \E cls \in Classes : objs = [o \in Ids |-> IF o = M THEN New(cls) ELSE Null]
    /\ c = NoRef
    /\ numpy1 \in BOOLEAN
    /\ (objs[M].cls # "MVNormInvWishart" => numpy1)
    /\ absorbed = [o \in Ids |-> <<>>]
    /\ last = NoCall

\* The inputs of posterior: its effect on the model depends on the shape of
\* x only, so one array per shape is offered, of one or two rows.
QueryLens ==
    {1, 2}

QueryInputs ==
    {Array(Force([i \in 1..k |-> Force([j \in 1..d |-> 1])])) : k \in QueryLens, d \in Dims}

\* The rows absorbed by all update calls together.
TotalN ==
    Len(absorbed[M]) + Len(absorbed[C])

\* h.update(x)
Update(h, x) ==
    LET o == Deref(h)
    IN  /\ o # NoRef
        /\ TotalN + Len(x.rows) <= MaxN
        /\ \E r \in {update(objs[o], x, numpy1)} :
               /\ objs' = [objs EXCEPT ![o] = r.self]
               /\ absorbed' = [absorbed EXCEPT ![o] = IF r.err = "ok" THEN @ \o x.rows ELSE @]
               /\ last' = [NoCall EXCEPT !.op = "update", !.h = h, !.res = r.err,
                                         !.xkind = x.kind,
                                         !.rows = IF r.err = "ok" THEN Len(x.rows) ELSE 0,
                                         !.start = IF r.err = "ok"
                                                   THEN process_time_series(objs[o], x).start
                                                   ELSE 0]
        /\ UNCHANGED <<c, numpy1>>

\* h.posterior(x, a2, a3), the arguments passed by position
Posterior(h, x, a2, a3) ==
    LET o == Deref(h)
    IN  /\ o # NoRef
        /\ \E out \in posterior(objs[o], x, a2, a3) :
              /\ objs' = [objs EXCEPT ![o] = out.self]
              /\ last' = [NoCall EXCEPT !.op = "posterior", !.h = h, !.res = out.res,
                                        !.xkind = x.kind,
                                        !.doc = Documented(x, a2, a3),
                                        !.rvreq = (x.kind = "None" \/ a2)]
        /\ UNCHANGED <<c, numpy1, absorbed>>

\* h.naive_posterior(x, log), of a BayesianLinReg model
NaivePosterior(h, x, logflag) ==
    LET o == Deref(h)
    IN  /\ o # NoRef
        /\ objs[o].cls = "BayesianLinReg"
        /\ \E out \in BayesianLinReg_naive_posterior(objs[o], x, logflag) :
              /\ objs' = [objs EXCEPT ![o] = out.self]
              /\ last' = [NoCall EXCEPT !.op = "naive_posterior", !.h = h, !.res = out.res,
                                        !.xkind = x.kind]
        /\ UNCHANGED <<c, numpy1, absorbed>>

\* c = copy.copy(m) or copy.deepcopy(m)
Copy ==
    /\ c = NoRef
    /\ LET r == ConjPrior_copy(objs, M, C)
       IN  /\ objs' = r.heap
           /\ c' = r.ref
           /\ UNCHANGED absorbed
    /\ last' = [NoCall EXCEPT !.op = "copy", !.h = "c"]
    /\ UNCHANGED numpy1

\* type(m).from_dict(m.to_dict())
RoundTrip ==
    /\ last' = [NoCall EXCEPT !.op = "from_dict",
                              !.ret = from_dict(objs[M].cls, to_dict(objs[M]))]
    /\ UNCHANGED <<objs, c, numpy1, absorbed>>

\* The caller works on m alone.
Next ==
    \/ \E x \in DataInputs : Update("m", x)
    \/ \E x \in QueryInputs \cup {NoneX}, a2 \in BOOLEAN, a3 \in BOOLEAN :
          Posterior("m", x, a2, a3)
    \/ \E x \in QueryInputs \cup {NoneX}, a2 \in BOOLEAN : NaivePosterior("m", x, a2)
    \/ RoundTrip

Spec ==
    Init /\ [][Next]_vars

\* The caller works on m (its queries with the default return_rv and log),
\* copies it, and from then on updates m and the copy.
NextCopy ==
    \/ c = NoRef /\ \E x \in DataInputs : Update("m", x)
    \/ c = NoRef /\ \E x \in QueryInputs \cup {NoneX} : Posterior("m", x, FALSE, TRUE)
    \/ Copy
    \/ c # NoRef /\ \E h \in {"m", "c"}, x \in DataInputs : Update(h, x)

SpecCopy ==
    Init /\ [][NextCopy]_vars

TypeOK ==
    /\ c \in {NoRef, M, C}
    /\ objs[M].n = Len(absorbed[M])
    /\ objs[C] # Null => objs[C].n >= Len(absorbed[C])

\* ------------------------------------------------------------------ claims
\* C1: associativity.  When m is in the state a freshly constructed model has
\* after update(B1), and update(B2) with a bare numeric batch B2 succeeds, m
\* is in the state a freshly constructed model has after update(B1 + B2).
C1_Associative ==
    [][(/\ last'.op = "update" /\ last'.res = "ok" /\ last'.xkind = "array"
        /\ absorbed[M] # <<>>
        /\ objs[M] = update(New(objs[M].cls), Array(absorbed[M]), numpy1).self)
       => objs'[M] = update(New(objs[M].cls), Array(absorbed'[M]), numpy1).self]_vars

\* C2: an update that fails the dimension check leaves every field of the
\* model as it was.
C2_MismatchAtomic ==
    [][(last'.op = "update" /\ last'.res = "AssertionError") => objs' = objs]_vars

\* C3: from_dict(to_dict(m)) has the fields of m, every one identical; an
\* unset field of m is unset in the restored model.
C3_RoundTrip ==
    last.op = "from_dict" => last.ret = objs[M]

\* C3: the round trip does reproduce a model all of whose fields are set.
C3_Witness ==
    /\ last.op = "from_dict"
    /\ objs[M].n > 0
    /\ last.ret = objs[M]

\* C4: right after c = copy(m) every field of c equals m's; an update on c
\* leaves m's fields unchanged and an update on m leaves c's unchanged.
C4_CopyIndependent ==
    [][/\ (last'.op = "copy" => objs'[c'] = objs'[M])
       /\ (c # NoRef /\ last'.op = "update" /\ last'.h = "c" => objs'[M] = objs[M])
       /\ (c # NoRef /\ last'.op = "update" /\ last'.h = "m" => objs'[c] = objs[c])]_vars

\* C4: a copy of a model that had absorbed data absorbed a batch of its own.
C4_Witness ==
    /\ c # NoRef
    /\ last.op = "update" /\ last.h = "c" /\ last.res = "ok"
    /\ objs[M].n > 0
    /\ objs[c].n > objs[M].n

\* C5: a BetaBernoulli model that absorbed k ones and m zeros, in whatever
\* batches, has alpha = 1 + k, beta = 1 + m and n = k + m.
C5_BetaBernoulliCounts ==
    objs[M].cls = "BetaBernoulli" =>
        LET k == Cardinality({i \in DOMAIN absorbed[M] : absorbed[M][i] = <<1>>})
            m == Cardinality({i \in DOMAIN absorbed[M] : absorbed[M][i] = <<0>>})
        IN  /\ objs[M].alpha = I2R(1 + k)
            /\ objs[M].beta = I2R(1 + m)
            /\ objs[M].n = k + m

\* C5: ones and zeros absorbed in more than one batch, one of them of two rows.
C5_Witness ==
    /\ objs[M].cls = "BetaBernoulli"
    /\ objs[M].n = MaxN
    /\ last.op = "update" /\ last.res = "ok" /\ last.rows = 2
    /\ objs[M].alpha.p > 1
    /\ objs[M].beta.p > 1

\* C6 as stated: dim is None in every state in which no observation has been
\* absorbed.
C6_DimNoneWhileEmpty ==
    objs[M].n = 0 => IsNone(objs[M].dim)

\* C6, amended: the scalar variants have dim = 1 from construction on; for
\* the other variants dim is None after construction and stays None exactly
\* until the first update, posterior or naive_posterior call that
\* preprocesses a non-None input, which sets it whether or not the call then
\* succeeds; so n > 0
\* implies that dim is set, but not conversely.
C6_DimSetByFirstInput ==
    /\ (objs[M].cls \in Scalars => objs[M].dim = Val(1))
    /\ (objs[M].cls \notin Scalars => IsNone(objs[M].dim))
    /\ [][/\ (objs[M].cls \in Scalars => objs'[M].dim = Val(1))
          /\ (objs[M].cls \notin Scalars =>
                (IsNone(objs'[M].dim) <=>
                    /\ IsNone(objs[M].dim)
                    /\ ~ \/ last'.op = "update"
                         \/ /\ last'.op \in {"posterior", "naive_posterior"}
                            /\ last'.xkind # "None"
                            /\ ~(objs[M].cls \in Regressions /\ last'.rvreq)))
          /\ (objs'[M].n > 0 => ~IsNone(objs'[M].dim))]_vars

\* C6: a posterior call has set dim on a model that has absorbed nothing.
C6_Witness ==
    /\ objs[M].cls \notin Scalars
    /\ last.op = "posterior"
    /\ objs[M].n = 0
    /\ ~IsNone(objs[M].dim)

\* C7: once t0 and dt are set no call changes them, and once dim is set no
\* call changes it.
C7_AnchorImmutable ==
    [][/\ (~IsNone(objs[M].t0) /\ ~IsNone(objs[M].dt) =>
             objs'[M].t0 = objs[M].t0 /\ objs'[M].dt = objs[M].dt)
       /\ (~IsNone(objs[M].dim) => objs'[M].dim = objs[M].dim)]_vars

\* C7: a model anchored by bare numeric data (t0 = 0) absorbed a TimeSeries,
\* whose first time stamp is not 0, and kept its anchor.
C7_Witness ==
    /\ last.op = "update" /\ last.res = "ok" /\ last.xkind = "ts"
    /\ objs[M].t0 = Val(0)
    /\ objs[M].n > last.rows

\* C8: posterior of a regression variant with x = None or return_rv raises
\* ValueError and leaves every field of the model unchanged.
C8_Unsupported ==
    [][(last'.op = "posterior" /\ objs[M].cls \in Regressions /\ last'.rvreq)
       => (last'.res = "ValueError" /\ objs' = objs)]_vars

\* C8: the call was made with an input and return_rv on a regression model
\* that is not anchored yet.
C8_Witness ==
    /\ last.op = "posterior" /\ objs[M].cls \in Regressions
    /\ last.rvreq /\ last.xkind # "None"
    /\ last.res = "ValueError"
    /\ IsNone(objs[M].t0)

\* C9: n starts at 0 and never decreases; a successful update adds the number
\* of rows of its input to n and no other call changes n, so n is the number
\* of rows absorbed; the raw time indices of a bare numeric batch start at n.
C9_ObservationCount ==
    /\ objs[M].n = 0
    /\ [][/\ objs'[M].n >= objs[M].n
          /\ objs'[M].n = Len(absorbed'[M])
          /\ (last'.op = "update" /\ last'.res = "ok" => objs'[M].n = objs[M].n + last'.rows)
          /\ (last'.op # "update" \/ last'.res # "ok" => objs'[M].n = objs[M].n)
          /\ (last'.op = "update" /\ last'.res = "ok" /\ last'.xkind # "ts"
                => last'.start = objs[M].n)]_vars

\* C9: a bare numeric batch absorbed after others was numbered from n on.
C9_Witness ==
    /\ last.op = "update" /\ last.res = "ok" /\ last.xkind = "array"
    /\ last.rows = 2
    /\ last.start > 0
    /\ objs[M].n = last.start + last.rows

\* C10: when posterior(x, return_rv, log) of a non-regression variant
\* returns, it returns what the documented contract says for these arguments.
C10_UniformContract ==
    (/\ last.op = "posterior"
     /\ objs[M].cls \notin Regressions
     /\ last.res \in {"rv", "logpdf", "pdf"})
    => last.res = last.doc

\* C10: the variants that bind the arguments in the documented order do
\* return density values when asked for them.
C10_Witness ==
    /\ last.op = "posterior"
    /\ objs[M].cls \in {"BetaBernoulli", "MVNormInvWishart"}
    /\ last.doc = "pdf"
    /\ last.res = "pdf"

\* C11: a successful update of an MVNormInvWishart model of dimension 2 that
\* holds n0 > 0 observations with a batch x of n rows (n >= 2, so that the
\* sample covariance is defined) gives Lambda + n * (the
\* sample covariance of x) + (n * n0 / (n + n0)) * delta delta^T with the
\* outer product delta delta^T of delta = mean(x) - mu_0; mu_0 becomes the
\* weighted average, n becomes n0 + n and nu grows by n.
C11_SubsequentBatch ==
    [][(/\ objs[M].cls = "MVNormInvWishart"
        /\ last'.op = "update" /\ last'.res = "ok"
        /\ objs[M].n > 0
        /\ objs[M].dim = Val(2)
        /\ last'.rows >= 2)
       => LET s == objs[M]
              x == ToRat(SubSeq(absorbed'[M], Len(absorbed[M]) + 1, Len(absorbed'[M])))
              n0 == s.n
              n == NRows(x)
              xbar == MeanAxis0(x)
              delta == VecSub(xbar, s.mu_0.v)
              outer == Force([i \in 1..2 |-> Force([j \in 1..2 |->
                           RMul(RMul(delta[i], delta[j]), Rat(n * n0, n + n0))])])
              Lambda == BAdd(BAdd(s.Lambda.v, BScale(np_cov(x, numpy1), I2R(n))), Arr2(outer))
          IN  /\ objs'[M].Lambda.v.nd = Lambda.nd
              /\ objs'[M].Lambda.v.a = Lambda.a
              /\ objs'[M].mu_0 = Val(VecAdd(VecScale(s.mu_0.v, Rat(n0, n0 + n)),
                                            VecScale(xbar, Rat(n, n0 + n))))
              /\ objs'[M].n = n0 + n
              /\ objs'[M].nu = s.nu + n]_vars

\* C11: a model of dimension 2 absorbed a second batch whose mean differs
\* from the mean it held.
C11_Witness ==
    /\ objs[M].cls = "MVNormInvWishart"
    /\ objs[M].dim = Val(2)
    /\ last.op = "update" /\ last.res = "ok"
    /\ objs[M].n > last.rows
    /\ last.rows >= 2
    /\ objs[M].mu_0.v # MeanAxis0(ToRat(SubSeq(absorbed[M], 1, objs[M].n - last.rows)))

\* C12: posterior (and naive_posterior) with a non-None x leaves n and every
\* sufficient statistic of the queried model unchanged; it changes dim, t0
\* and dt at most, and each only if it was unset before the call.
C12_QueriesAbsorbNothing ==
    [][(last'.op \in {"posterior", "naive_posterior"} /\ last'.xkind # "None")
       => /\ \A f \in DOMAIN objs[M] \ {"dim", "t0", "dt"} : objs'[M][f] = objs[M][f]
          /\ \A f \in {"dim", "t0", "dt"} :
                objs'[M][f] # objs[M][f] => IsNone(objs[M][f])]_vars

\* C12: a query of a regression model that holds data returned density
\* values, so its extra update ran (on the copy).
C12_Witness ==
    /\ objs[M].cls \in Regressions
    /\ last.op \in {"posterior", "naive_posterior"}
    /\ last.res \in {"logpdf", "pdf"}
    /\ objs[M].n > 0

====
